---- MODULE Spec2Model ----
(***************************************************************************)
(* ByteChat backend: the /api/chat/stream relay (backend/main.py) with its *)
(* token verifier (backend/auth.py) and the SQLite users table.            *)
(*                                                                         *)
(* Each request is one record of req; db is the users table; feed is what  *)
(* the two providers may answer in this run.  A request                    *)
(* walks verify_access_token -> get_or_create_user (SELECT, then           *)
(* UPDATE/INSERT and commit, then the re-SELECT) -> quota check ->         *)
(* generate(): send the POST, take the upstream's answer, then one step    *)
(* per upstream line.  lock is the lock a leaked sqlite3 connection holds  *)
(* on the database file.                                                   *)
(***************************************************************************)
EXTENDS Integers, Sequences, FiniteSets, TLC

VARIABLES db, req, feed, lock

vars == <<db, req, feed, lock>>

(* ------------------------------ bounds -------------------------------- *)

\* number of chat requests the model runs (each runs once)
MaxReq == 2
\* upstream lines read by all streams together
MaxLines == 4

Req == 1..MaxReq

(* ------------------------- program constants -------------------------- *)

\* INSERT ... VALUES (?, ?, ?, 1000000, 0, 1000000)
DefaultTokens == 1000000

(* --------------------------- JSON values ------------------------------ *)
\* A member of a usage object: missing, JSON null, or a number.
Missing == [t |-> "missing", n |-> 0]
Null == [t |-> "null", n |-> 0]
Num(n) == [t |-> "num", n |-> n]

\* data["usage"]: the key is absent, holds null, or holds an object.
NoUsage == [tag |-> "absent", prompt_tokens |-> Missing,
            completion_tokens |-> Missing, total_tokens |-> Missing]
NullUsage == [tag |-> "null", prompt_tokens |-> Missing,
              completion_tokens |-> Missing, total_tokens |-> Missing]
Usage(p, c, t) == [tag |-> "obj", prompt_tokens |-> p,
                   completion_tokens |-> c, total_tokens |-> t]

\* A parsed chunk: what it carries besides usage (id), and its usage member.
Chunk(id, u) == [id |-> id, usage |-> u]
NoChunk == Chunk("", NoUsage)

(* ------------------------ lines and frames ---------------------------- *)
\* One record shape for upstream lines and for frames given to the caller.
\*   kind  "blank"      line.strip() is empty
\*         "comment"    a non-empty line without the "data: " prefix
\*         "done"       data: [DONE]
\*         "malformed"  data: <text json.loads rejects>
\*         "json"       data: <JSON text>; val is its value and canon says
\*                      whether the text is exactly what json.dumps writes
\*                      for val (", " and ": " separators, ASCII escapes)
\*         "token_update", "error"   frames generate() builds itself
Frame(kind, val, canon, left, used, err) ==
    [kind |-> kind, val |-> val, canon |-> canon,
     tokens_left |-> left, tokens_used |-> used, err |-> err]

BlankLine == Frame("blank", NoChunk, FALSE, 0, 0, "")
CommentLine == Frame("comment", NoChunk, FALSE, 0, 0, "")
DoneLine == Frame("done", NoChunk, FALSE, 0, 0, "")
MalformedLine == Frame("malformed", NoChunk, FALSE, 0, 0, "")
JsonLine(val, canon) == Frame("json", val, canon, 0, 0, "")

\* json.loads(data_str): the value of a JSON text; its layout is forgotten.
JsonLoads(line) == line.val
\* json.loads raises JSONDecodeError
JsonDecodeError(line) == line.kind = "malformed"
\* f"data: {json.dumps(data)}\n\n": always the canonical layout.
JsonDumpsFrame(val) == Frame("json", val, TRUE, 0, 0, "")
\* the 'token_update' frame
TokenUpdateFrame(left, used) == Frame("token_update", NoChunk, TRUE, left, used, "")
\* f"data: [DONE]\n\n"
DoneFrame == Frame("done", NoChunk, FALSE, 0, 0, "")
\* {'error': ...} frames
ErrorFrame(err) == Frame("error", NoChunk, TRUE, 0, 0, err)

\* The upstream lines a lone stream is fed: every kind of line.
UpstreamLines ==
    { CommentLine, DoneLine, MalformedLine,
      JsonLine(Chunk("delta", NoUsage), FALSE),
      JsonLine(Chunk("", Usage(Missing, Missing, Num(50))), TRUE),
      JsonLine(Chunk("", Usage(Missing, Missing, Num(DefaultTokens))), FALSE),
      JsonLine(Chunk("", Usage(Num(0), Num(0), Num(0))), FALSE),
      JsonLine(Chunk("", Usage(Num(20), Num(30), Missing)), FALSE),
      JsonLine(Chunk("", Usage(Missing, Missing, Null)), FALSE),
      JsonLine(Chunk("", NullUsage), FALSE),
      BlankLine }

\* The upstream lines of runs about the profile: one usage frame, the sentinel.
ProfileLines ==
    { DoneLine,
      JsonLine(Chunk("", Usage(Missing, Missing, Num(50))), TRUE) }

\* The upstream lines concurrent streams are fed: those the ledger sees.
LedgerLines ==
    { DoneLine,
      JsonLine(Chunk("", Usage(Missing, Missing, Num(50))), TRUE),
      JsonLine(Chunk("", Usage(Missing, Missing, Num(DefaultTokens))), FALSE) }

\* The upstream lines of runs about termination: the sentinel, and a usage
\* frame that exhausts the quota.
LiveLines ==
    { DoneLine,
      JsonLine(Chunk("", Usage(Missing, Missing, Num(DefaultTokens))), FALSE) }

\* How the upstream may answer the POST: status 200, another status,
\* httpx.ReadTimeout, or another exception.
UpstreamAnswers == {"200", "not200", "timeout", "exception"}

\* How reading the next upstream line may raise: httpx.ReadTimeout, or
\* another exception.
UpstreamFaults == {"timeout", "transport"}

\* The same for concurrent requests: one refusal, one fault.
LedgerOpens == {"200", "not200"}
LedgerFaults == {"timeout"}

(* --------------------------- database lock ---------------------------- *)
\* What a connection that an exception left unclosed (no try/finally, no
\* close) holds on the database file until the garbage collector frees it:
\*   "free"      nothing
\*   "reserved"  its INSERT/UPDATE raised inside the write transaction:
\*               other connections can read, none can write
\*   "pending"   its commit raised SQLITE_BUSY on the way to the exclusive
\*               lock: other connections can neither read nor write
LockLevels == {"free", "reserved", "pending"}

\* a SELECT of another connection raises OperationalError (database is
\* locked) after the busy timeout
SelectRaises(lk) == lk = "pending"

\* an INSERT/UPDATE of another connection raises OperationalError
WriteLocked(lk) == lk # "free"

(* ----------------------------- users table ---------------------------- *)
Emails == {"a@x.com"}

NoRow == [exists |-> FALSE, name |-> "", picture |-> "",
          total_tokens |-> 0, tokens_used |-> 0, tokens_left |-> 0]

\* init_database: CREATE TABLE IF NOT EXISTS users; no rows yet.
init_database == [e \in Emails |-> NoRow]

\* What verify_access_token returns: None, or the user_info dict.
NoInfo == [ok |-> FALSE, email |-> "", name |-> "", picture |-> ""]
UserInfo(email, name, picture) ==
    [ok |-> TRUE, email |-> email, name |-> name, picture |-> picture]

\* Answers of the userinfo endpoint: status 200 with a body, another status,
\* or an exception in requests.get.  An email, name or picture of "" is a
\* body without that key (user_info.get gives None).
IdpAnswers ==
    { [status |-> 200, raised |-> FALSE, email |-> "a@x.com", name |-> "Ann", picture |-> "p1"],
      [status |-> 200, raised |-> FALSE, email |-> "a@x.com", name |-> "Ann B", picture |-> ""],
      [status |-> 200, raised |-> FALSE, email |-> "", name |-> "Ann", picture |-> "p1"],
      [status |-> 200, raised |-> FALSE, email |-> "a@x.com", name |-> "", picture |-> "p1"],
      [status |-> 401, raised |-> FALSE, email |-> "", name |-> "", picture |-> ""],
      [status |-> 0, raised |-> TRUE, email |-> "", name |-> "", picture |-> ""] }

\* The answers concurrent requests get: one profile, or a refusal.
LedgerAnswers ==
    { [status |-> 200, raised |-> FALSE, email |-> "a@x.com", name |-> "Ann", picture |-> "p1"],
      [status |-> 401, raised |-> FALSE, email |-> "", name |-> "", picture |-> ""] }

\* The answers of runs about the profile: the same account, two profiles,
\* a body without name, and a refusal.
ProfileAnswers ==
    { [status |-> 200, raised |-> FALSE, email |-> "a@x.com", name |-> "Ann", picture |-> "p1"],
      [status |-> 200, raised |-> FALSE, email |-> "a@x.com", name |-> "Ann B", picture |-> ""],
      [status |-> 200, raised |-> FALSE, email |-> "a@x.com", name |-> "", picture |-> "p1"],
      [status |-> 401, raised |-> FALSE, email |-> "", name |-> "", picture |-> ""] }

\* GmailAuth.verify_access_token
verify_access_token(ans) ==
    IF ans.raised THEN NoInfo
    ELSE IF ans.status # 200 THEN NoInfo
    ELSE UserInfo(ans.email, ans.name, ans.picture)

\* The outbound requests one verify_access_token call makes, in order: the
\* userinfo GET, and after a status other than 200 the tokeninfo GET whose
\* answer is only printed.
OutboundCalls(ans) ==
    IF ans.raised THEN <<"userinfo">>
    ELSE IF ans.status # 200 THEN <<"userinfo", "tokeninfo">>
    ELSE <<"userinfo">>

\* the dict get_or_create_user returns (None when ok is FALSE)
NoUser == [ok |-> FALSE, email |-> "", name |-> "", picture |-> "",
           total_tokens |-> 0, tokens_used |-> 0, tokens_left |-> 0]
UserDict(email, row) ==
    [ok |-> TRUE, email |-> email, name |-> row.name, picture |-> row.picture,
     total_tokens |-> row.total_tokens, tokens_used |-> row.tokens_used,
     tokens_left |-> row.tokens_left]

\* SELECT * FROM users WHERE email = ?  (email NULL matches no row)
RowExists(dbv, email) == email \in Emails /\ dbv[email].exists

\* UPDATE users SET name = ?, picture = ? WHERE email = ?
UpdateProfile(dbv, info) ==
    IF RowExists(dbv, info.email)
    THEN [dbv EXCEPT ![info.email].name = info.name,
                     ![info.email].picture = info.picture]
    ELSE dbv

\* UPDATE raises IntegrityError: name NOT NULL
UpdateRaises(dbv, info) == info.name = ""

\* INSERT raises IntegrityError: email NOT NULL, email UNIQUE, name NOT NULL
InsertOverwrites(dbv, info) == info.email \notin Emails \/ info.name = ""
InsertRaises(dbv, info) ==
    \/ info.email \notin Emails
    \/ info.name = ""
    \/ dbv[info.email].exists

\* str(e) of the IntegrityError: NOT NULL is checked before UNIQUE
IntegrityError(info) ==
    IF info.email \notin Emails \/ info.name = ""
    THEN "NOT NULL constraint failed" ELSE "UNIQUE constraint failed"

\* INSERT INTO users (...) VALUES (?, ?, ?, 1000000, 0, 1000000)
InsertUser(dbv, info) ==
    [dbv EXCEPT ![info.email] =
        [exists |-> TRUE, name |-> info.name, picture |-> info.picture,
         total_tokens |-> DefaultTokens, tokens_used |-> 0,
         tokens_left |-> DefaultTokens]]

\* if user["tokens_left"] <= 0: raise HTTPException(403)
QuotaExhaustedLoose(user) == user.tokens_left < 0
QuotaExhausted(user) == user.tokens_left <= 0

(* ------------------------- request records ---------------------------- *)
\* endpoint: "chat" is POST /api/chat/stream, "auth" is POST /api/auth/google.
\* pc: "idle" -> "verifying" (-> "tokeninfo") -> "authorized" -> "selected"
\*     -> "written" -> "streaming" -> "posted" (the POST is sent, the
\*     answer awaited) -> "relaying" -> "committed" -> "accounted"
\*     (suspended at the yield of the accounting frame) -> "closed";
\*     "posted" -> "refused" (awaiting the body of a non-200 answer)
\*     -> "closed"; "failed": an HTTPException answered the request;
\*     a request of the auth endpoint goes "written" -> "returned".
\* detail: the text of the sqlite3 exception a failed request reports.
\* end: how generate() ended, "" while it has not.
NewRequest ==
    [endpoint |-> "chat", pc |-> "idle", status |-> 0, detail |-> "",
     info |-> NoInfo, found |-> FALSE,
     user |-> NoUser, up |-> <<>>, out |-> <<>>,
     prompt_tokens |-> Num(0), completion_tokens |-> Num(0),
     total_tokens |-> Num(0),
     idp_calls |-> <<>>,
     upstream_calls |-> 0, reconciled |-> 0, billed |-> 0, end |-> ""]

\* a request that never arrives
AbsentRequest == [NewRequest EXCEPT !.pc = "absent"]

\* raise HTTPException(status_code=code)
HttpError(q, code) == [q EXCEPT !.pc = "failed", !.status = code]

RECURSIVE SumOver(_, _)
SumOver(f, S) ==
    IF S = {} THEN 0
    ELSE LET x == CHOOSE y \in S : TRUE IN f[x] + SumOver(f, S \ {x})

\* upstream lines read so far by all streams
LinesRead == SumOver([r \in Req |-> Len(req[r].up)], Req)

\* the lines the upstream may send next
Alphabet == feed.lines

\* the answers the identity provider may give next
Answers == feed.answers

(* ----------------------------- generate() ----------------------------- *)
\* yield: the caller receives the frame after those it already has
EmitFrame(out, f) == Append(out, f)

\* except httpx.ReadTimeout / except Exception: one error frame, then the
\* generator returns
StreamErrorContinues(q, err, how) ==
    [q EXCEPT !.out = EmitFrame(q.out, ErrorFrame(err)),
              !.pc = "relaying", !.end = how]
StreamError(q, err, how) ==
    [q EXCEPT !.out = EmitFrame(q.out, ErrorFrame(err)),
              !.pc = "closed", !.end = how]

\* lines 268-271: the upstream answered another status than 200: one error
\* frame carrying its body, then return
OnStatusErrorNoReturn(q) ==
    [q EXCEPT !.out = EmitFrame(q.out, ErrorFrame("OpenRouter API error")),
              !.pc = "relaying", !.end = "status"]
OnStatusError(q) == StreamError(q, "OpenRouter API error", "status")

\* lines 326-327: an sqlite3 call of the reconciliation raised; except
\* Exception yields one error frame and the generator ends
OnStorageFailureSilent(q) == [q EXCEPT !.pc = "closed", !.end = "storage"]
OnStorageFailure(q) == StreamError(q, "Stream error", "storage")

\* usage.get(key, 0)
UsageGet(u, key) == IF u[key].t = "missing" THEN Num(0) ELSE u[key]

\* prompt_tokens + completion_tokens raises TypeError on None
AddRaises(p, c) == p.t = "null" \/ c.t = "null"

\* lines 313-317: does tracking the usage of a parsed chunk raise?
\* (None has no .get; the default of the third get is computed eagerly)
TrackRaises(data) ==
    \/ data.usage.tag = "null"
    \/ /\ data.usage.tag = "obj"
       /\ AddRaises(UsageGet(data.usage, "prompt_tokens"),
                    UsageGet(data.usage, "completion_tokens"))

\* lines 313-317: the three counters after a parsed chunk that did not raise
TrackUsage(q, data) ==
    IF data.usage.tag # "obj" THEN q
    ELSE LET p == UsageGet(data.usage, "prompt_tokens")
             c == UsageGet(data.usage, "completion_tokens")
             t == IF data.usage.total_tokens.t = "missing"
                  THEN Num(p.n + c.n) ELSE data.usage.total_tokens
         IN [q EXCEPT !.prompt_tokens = p, !.completion_tokens = c,
                      !.total_tokens = t]

\* UPDATE users SET tokens_used = tokens_used + ?, tokens_left = tokens_left - ?
\* WHERE email = ?   (one SQL statement on the stored row)
ReconcileStale(dbv, user, amount) ==
    IF RowExists(dbv, user.email)
    THEN [dbv EXCEPT ![user.email].tokens_used = user.tokens_used + amount,
                     ![user.email].tokens_left = user.tokens_left - amount]
    ELSE dbv
ReconcileLeftOnly(dbv, user, amount) ==
    IF RowExists(dbv, user.email)
    THEN [dbv EXCEPT ![user.email].tokens_left = @ - amount]
    ELSE dbv
ReconcileRefund(dbv, user, amount) ==
    IF RowExists(dbv, user.email)
    THEN [dbv EXCEPT ![user.email].tokens_used = @ - amount,
                     ![user.email].tokens_left = @ + amount]
    ELSE dbv
Reconcile(dbv, user, amount) ==
    IF RowExists(dbv, user.email)
    THEN [dbv EXCEPT ![user.email].tokens_used = @ + amount,
                     ![user.email].tokens_left = @ - amount]
    ELSE dbv

\* SELECT tokens_left FROM users WHERE email = ?; None keeps the old value
SelectTokensLeft(dbv, user) ==
    IF RowExists(dbv, user.email) THEN dbv[user.email].tokens_left
    ELSE user.tokens_left

\* Outcomes of the sqlite3 calls of the reconciliation: all succeed; the
\* UPDATE raises; the commit raises, which leaves the connection, never
\* closed, inside its write transaction; or the SELECT after the commit
\* raises.
StorageOutcomes ==
    {"ok", "raise_before_commit", "raise_in_commit", "raise_after_commit"}

\* The same for runs about the profile: only the SELECT may raise.
ProfileOutcomes == {"ok", "raise_after_commit"}

\* Outcomes of the write of get_or_create_user besides what the row and the
\* lock decide: all succeed; the INSERT/UPDATE raises database is locked
\* (a connection of another worker holds the write lock past the busy
\* timeout); or the commit does (a reader keeps its shared lock), which
\* leaves the connection, never closed, holding the pending lock.
GetOrCreateOutcomes == {"ok", "raise_in_write", "raise_in_commit"}

\* The same for runs about the profile, where no connection but those of
\* the requests is open: the lock alone decides.
ProfileWrites == {"ok"}

\* line 306: break leaves the loop over the upstream lines
SentinelKeepsReading == FALSE
SentinelBreaks == TRUE

\* lines 278-291: the line is data: [DONE], up to the commit of the UPDATE
\* (or, with nothing to bill, up to the yield of the accounting frame, where
\* the generator is suspended).  A lock held by a leaked connection makes
\* the UPDATE raise; a commit that raises leaves this connection, never
\* closed, holding the pending lock.  Gives the request, the table and the
\* lock.
OnSentinel(q, dbv, lk, st) ==
    IF q.total_tokens.t = "null"
    THEN [q |-> StreamError(q, "Stream error", "raised"), db |-> dbv, lock |-> lk]
    ELSE IF q.total_tokens.n > 0
    THEN LET amount == q.total_tokens.n IN
         CASE WriteLocked(lk) \/ st = "raise_before_commit" ->
                [q |-> OnStorageFailure(q), db |-> dbv, lock |-> lk]
           [] st = "raise_in_commit" ->
                [q |-> OnStorageFailure(q), db |-> dbv, lock |-> "pending"]
           [] OTHER ->
                [q |-> [q EXCEPT !.reconciled = @ + 1, !.billed = @ + amount,
                                 !.pc = "committed"],
                 db |-> Reconcile(dbv, q.user, amount), lock |-> lk]
    ELSE [q |-> [q EXCEPT
              !.out = EmitFrame(q.out,
                        TokenUpdateFrame(q.user.tokens_left, q.total_tokens.n)),
              !.pc = "accounted"],
          db |-> dbv, lock |-> lk]

\* lines 294-304: after the commit: SELECT tokens_left, close, and the yield
\* of the accounting frame, where the generator is suspended
OnCommitted(q, dbv, lk, st) ==
    IF SelectRaises(lk) \/ st = "raise_after_commit" THEN OnStorageFailure(q)
    ELSE [q EXCEPT
            !.out = EmitFrame(q.out,
                      TokenUpdateFrame(SelectTokensLeft(dbv, q.user),
                                       q.total_tokens.n)),
            !.pc = "accounted"]

\* lines 305-306: resumed after the accounting frame: yield [DONE], break
OnResume(q) ==
    [q EXCEPT !.out = EmitFrame(q.out, DoneFrame),
              !.pc = IF SentinelBreaks THEN "closed" ELSE "relaying",
              !.end = IF SentinelBreaks THEN "sentinel" ELSE ""]

\* except json.JSONDecodeError: continue
OnDecodeErrorAbort(q) == StreamError(q, "Stream error", "raised")
OnDecodeError(q) == q

\* lines 314-316: the counters when tracking raises: usage.get on None
\* raises before any assignment; with a usage object prompt_tokens and
\* completion_tokens are assigned before the sum raises
TrackPartial(q, data) ==
    IF data.usage.tag # "obj" THEN q
    ELSE [q EXCEPT !.prompt_tokens = UsageGet(data.usage, "prompt_tokens"),
                   !.completion_tokens = UsageGet(data.usage, "completion_tokens")]

\* lines 308-322: a data line that is not the sentinel
OnData(q, line) ==
    IF JsonDecodeError(line) THEN OnDecodeError(q)
    ELSE LET data == JsonLoads(line) IN
         IF TrackRaises(data)
         THEN StreamError(TrackPartial(q, data), "Stream error", "raised")
         ELSE [TrackUsage(q, data) EXCEPT
                  !.out = EmitFrame(q.out, JsonDumpsFrame(data))]

\* if line.strip(): if line.startswith("data: "):
IsDataLine(line) == line.kind \notin {"blank", "comment"}

\* lines 273-322: one pass of the loop body for one upstream line
OnLine(q, line, dbv, lk, st) ==
    LET q1 == [q EXCEPT !.up = Append(q.up, line)] IN
    IF ~IsDataLine(line) THEN [q |-> q1, db |-> dbv, lock |-> lk]
    ELSE IF line.kind = "done" THEN OnSentinel(q1, dbv, lk, st)
    ELSE [q |-> OnData(q1, line), db |-> dbv, lock |-> lk]

(* ------------------------------ actions ------------------------------- *)
Init ==
    /\ db = init_database
    /\ req = [r \in Req |-> NewRequest]
    /\ feed = [lines |-> LedgerLines, answers |-> LedgerAnswers,
               opens |-> LedgerOpens, faults |-> LedgerFaults,
               storage |-> StorageOutcomes,
               writes |-> GetOrCreateOutcomes]
    /\ lock = "free"

\* one request alone
InitRelay ==
    /\ db = init_database
    /\ req = [r \in Req |-> IF r = 1 THEN NewRequest ELSE AbsentRequest]
    /\ feed = [lines |-> UpstreamLines, answers |-> IdpAnswers,
               opens |-> UpstreamAnswers, faults |-> UpstreamFaults,
               storage |-> StorageOutcomes,
               writes |-> GetOrCreateOutcomes]
    /\ lock = "free"

\* requests of one account whose profile may differ from call to call
InitProfile ==
    /\ db = init_database
    /\ req = [r \in Req |-> NewRequest]
    /\ feed = [lines |-> ProfileLines, answers |-> ProfileAnswers,
               opens |-> LedgerOpens, faults |-> LedgerFaults,
               storage |-> ProfileOutcomes,
               writes |-> ProfileWrites]
    /\ lock = "free"

\* concurrent requests of one account that a single stream can exhaust
InitLive ==
    /\ db = init_database
    /\ req = [r \in Req |-> NewRequest]
    /\ feed = [lines |-> LiveLines, answers |-> LedgerAnswers,
               opens |-> UpstreamAnswers, faults |-> UpstreamFaults,
               storage |-> StorageOutcomes,
               writes |-> GetOrCreateOutcomes]
    /\ lock = "free"

\* stream_chat, line 207, and verify_access_token, lines 77-80: the request
\* arrives and the verifier sends the userinfo GET (requests.get, no timeout)
Verify(r) ==
    /\ req[r].pc = "idle"
    /\ req' = [req EXCEPT ![r].pc = "verifying",
                          ![r].idp_calls = <<"userinfo">>]
    /\ UNCHANGED <<db, feed, lock>>

\* google_auth, line 143, and verify_access_token, lines 77-80: the same for
\* a request of the sign-in endpoint
google_auth(r) ==
    /\ req[r].pc = "idle"
    /\ req' = [req EXCEPT ![r].pc = "verifying",
                          ![r].endpoint = "auth",
                          ![r].idp_calls = <<"userinfo">>]
    /\ UNCHANGED <<db, feed, lock>>

\* verify_access_token, lines 82-109, and the caller's check (stream_chat
\* 208-211, google_auth 145-146, 159-160): the userinfo GET is answered or
\* raises.  After a status other than 200 the tokeninfo GET is sent.
UserinfoAnswer(r) ==
    /\ req[r].pc = "verifying"
    /\ \E ans \in Answers :
         LET user_info == verify_access_token(ans)
             q == [req[r] EXCEPT !.idp_calls = OutboundCalls(ans)] IN
         req' = [req EXCEPT ![r] =
                   IF user_info.ok
                   THEN [q EXCEPT !.pc = "authorized", !.info = user_info]
                   ELSE IF Len(q.idp_calls) > 1
                   THEN [q EXCEPT !.pc = "tokeninfo"]
                   ELSE HttpError(q, 401)]
    /\ UNCHANGED <<db, feed, lock>>

\* verify_access_token, lines 89-94: the tokeninfo GET is answered or raises;
\* either way the verifier returns None and the request is answered 401
TokeninfoAnswer(r) ==
    /\ req[r].pc = "tokeninfo"
    /\ req' = [req EXCEPT ![r] = HttpError(@, 401)]
    /\ UNCHANGED <<db, feed, lock>>

\* stream_chat answers an exception with 500 (lines 341-342), google_auth
\* with 401 (lines 159-160)
EndpointError(q) == IF q.endpoint = "auth" THEN 401 ELSE 500

\* an sqlite3 exception left get_or_create_user: the endpoint's except
\* Exception answers with its status and str(e)
StorageError(q, what) ==
    [HttpError(q, EndpointError(q)) EXCEPT !.detail = what]

\* get_or_create_user, lines 75-76: SELECT * FROM users WHERE email = ?
\* (raises under a pending lock; the connection, holding nothing, is leaked)
GetOrCreateSelect(r) ==
    /\ req[r].pc = "authorized"
    /\ LET q == req[r] IN
       req' = [req EXCEPT ![r] =
                 IF SelectRaises(lock)
                 THEN StorageError(q, "database is locked")
                 ELSE [q EXCEPT !.pc = "selected",
                                !.found = RowExists(db, q.info.email)]]
    /\ UNCHANGED <<db, feed, lock>>

\* get_or_create_user, lines 78-96: does the UPDATE or the INSERT raise?
\* OperationalError while the write lock is not to be had, else the
\* IntegrityError of the row
GetOrCreateRaises(dbv, lk, st, q) ==
    \/ WriteLocked(lk)
    \/ st = "raise_in_write"
    \/ IF q.found THEN UpdateRaises(dbv, q.info) ELSE InsertRaises(dbv, q.info)

\* get_or_create_user, lines 78-96: the table after the UPDATE or the INSERT
GetOrCreateWrite(dbv, q) ==
    IF q.found THEN UpdateProfile(dbv, q.info) ELSE InsertUser(dbv, q.info)

\* get_or_create_user, lines 78-96: the UPDATE or INSERT and its commit.
\* The write lock is taken before the row is checked.  An exception leaves
\* the connection unclosed (no try/finally): after an IntegrityError it is
\* inside its write transaction and keeps the reserved lock, after a commit
\* that raised it keeps the pending lock; the table is as it was.
GetOrCreateCommit(r) ==
    /\ req[r].pc = "selected"
    /\ \E st \in feed.writes :
         LET q == req[r] IN
         IF WriteLocked(lock) \/ st = "raise_in_write"
         THEN /\ req' = [req EXCEPT ![r] = StorageError(q, "database is locked")]
              /\ UNCHANGED <<db, feed, lock>>
         ELSE IF GetOrCreateRaises(db, lock, st, q)
         THEN /\ req' = [req EXCEPT ![r] = StorageError(q, IntegrityError(q.info))]
              /\ lock' = "reserved"
              /\ UNCHANGED <<db, feed>>
         ELSE IF st = "raise_in_commit"
         THEN /\ req' = [req EXCEPT ![r] = StorageError(q, "database is locked")]
              /\ lock' = "pending"
              /\ UNCHANGED <<db, feed>>
         ELSE /\ db' = GetOrCreateWrite(db, q)
              /\ req' = [req EXCEPT ![r].pc = "written", ![r].found = FALSE]
              /\ UNCHANGED <<feed, lock>>

\* get_or_create_user, lines 88-114, and stream_chat, lines 220-337: the
\* re-SELECT after the commit (raises under a pending lock), the user dict,
\* the quota check, and the StreamingResponse being returned.
get_or_create_user(r) ==
    /\ req[r].pc = "written"
    /\ req[r].endpoint = "chat"
    /\ LET q == req[r]
           user == UserDict(q.info.email, db[q.info.email]) IN
       req' = [req EXCEPT ![r] =
                 IF SelectRaises(lock)
                 THEN StorageError([q EXCEPT !.info = NoInfo], "database is locked")
                 ELSE IF QuotaExhausted(user)
                 THEN HttpError([q EXCEPT !.user = user, !.info = NoInfo], 403)
                 ELSE [q EXCEPT !.user = user, !.info = NoInfo,
                                !.status = 200, !.pc = "streaming"]]
    /\ UNCHANGED <<db, feed, lock>>

\* get_or_create_user, lines 88-114, and google_auth, lines 154-160: the
\* re-SELECT after the commit (raises under a pending lock: 401); the user
\* dict is returned with no quota check
GoogleAuthReturn(r) ==
    /\ req[r].pc = "written"
    /\ req[r].endpoint = "auth"
    /\ LET q == req[r]
           user == UserDict(q.info.email, db[q.info.email]) IN
       req' = [req EXCEPT ![r] =
                 IF SelectRaises(lock)
                 THEN StorageError([q EXCEPT !.info = NoInfo], "database is locked")
                 ELSE [q EXCEPT !.user = user, !.info = NoInfo,
                                !.status = 200, !.pc = "returned"]]
    /\ UNCHANGED <<db, feed, lock>>

\* generate, lines 255-267: the generator starts and client.stream sends
\* the POST; it is suspended until the upstream answers
OpenUpstream(r) ==
    /\ req[r].pc = "streaming"
    /\ req' = [req EXCEPT ![r].pc = "posted", ![r].upstream_calls = @ + 1]
    /\ UNCHANGED <<db, feed, lock>>

\* generate, lines 260-269 and 324-327: the upstream answers the POST, or
\* the wait raises.  After a status other than 200 the generator awaits
\* the body (response.aread()).
UpstreamAnswer(r) ==
    /\ req[r].pc = "posted"
    /\ \E answer \in feed.opens :
         req' = [req EXCEPT ![r] =
                   CASE answer = "200" -> [@ EXCEPT !.pc = "relaying"]
                     [] answer = "not200" -> [@ EXCEPT !.pc = "refused"]
                     [] answer = "timeout" ->
                          StreamError(@, "Request timeout", "open_timeout")
                     [] OTHER -> StreamError(@, "Stream error", "open_error")]
    /\ UNCHANGED <<db, feed, lock>>

\* generate, lines 269-271 and 324-327: the body of the non-200 answer is
\* read: one error frame carrying it, then return; or reading it raises
ReadErrorBody(r) ==
    /\ req[r].pc = "refused"
    /\ \E how \in {"ok"} \cup feed.faults :
         req' = [req EXCEPT ![r] =
                   CASE how = "ok" -> OnStatusError(@)
                     [] how = "timeout" ->
                          StreamError(@, "Request timeout", "open_timeout")
                     [] OTHER -> StreamError(@, "Stream error", "open_error")]
    /\ UNCHANGED <<db, feed, lock>>

\* generate, lines 273-322: the next upstream line arrives
RelayLine(r) ==
    /\ req[r].pc = "relaying"
    /\ LinesRead < MaxLines
    /\ \E line \in Alphabet,
          st \in feed.storage \ {"raise_after_commit"} :
         LET res == OnLine(req[r], line, db, lock, st) IN
         /\ req' = [req EXCEPT ![r] = res.q]
         /\ db' = res.db
         /\ lock' = res.lock
    /\ UNCHANGED feed

\* generate, lines 294-304: the SELECT of tokens_left after the commit, and
\* the accounting frame
SelectAfterCommit(r) ==
    /\ req[r].pc = "committed"
    /\ \E st \in feed.storage \cap {"ok", "raise_after_commit"} :
         req' = [req EXCEPT ![r] = OnCommitted(@, db, lock, st)]
    /\ UNCHANGED <<db, feed, lock>>

\* generate, lines 305-306: the caller took the accounting frame and asks
\* for the next one
YieldDone(r) ==
    /\ req[r].pc = "accounted"
    /\ req' = [req EXCEPT ![r] = OnResume(@)]
    /\ UNCHANGED <<db, feed, lock>>

\* generate, line 273: aiter_lines() is exhausted, the upstream closed the
\* connection; the generator returns without yielding
UpstreamClose(r) ==
    /\ req[r].pc = "relaying"
    /\ req' = [req EXCEPT ![r].pc = "closed", ![r].end = "eof"]
    /\ UNCHANGED <<db, feed, lock>>

\* generate, lines 324-327: reading the next line raises
UpstreamFail(r) ==
    /\ req[r].pc = "relaying"
    /\ \E how \in feed.faults :
         req' = [req EXCEPT ![r] =
                   IF how = "timeout"
                   THEN StreamError(@, "Request timeout", "timeout")
                   ELSE StreamError(@, "Stream error", "transport")]
    /\ UNCHANGED <<db, feed, lock>>

\* The caller disconnects: the generator was not started yet, or it is
\* suspended at an await or a yield and gets closed (GeneratorExit or
\* CancelledError, neither an Exception), the async with blocks release the
\* upstream connection, nothing else runs.  (Between the commit and the
\* SELECT of the reconciliation nothing is awaited.)
Cancel(r) ==
    /\ req[r].pc \in {"streaming", "posted", "refused", "relaying", "accounted"}
    /\ req' = [req EXCEPT ![r].pc = "closed", ![r].end = "cancel"]
    /\ UNCHANGED <<db, feed, lock>>

\* CPython's garbage collector frees a leaked connection: its transaction
\* is rolled back and its lock released
CollectGarbage ==
    /\ lock # "free"
    /\ lock' = "free"
    /\ UNCHANGED <<db, req, feed>>

\* The steps of request r that the code makes sure are taken while the
\* event loop runs: every call it awaits returns, raises or times out
\* (httpx timeout=60.0, sqlite3 busy timeout).  The answers of the identity
\* provider are not among them: requests.get is called with no timeout.
Step(r) ==
    \/ Verify(r)
    \/ google_auth(r)
    \/ GetOrCreateSelect(r)
    \/ GetOrCreateCommit(r)
    \/ get_or_create_user(r)
    \/ GoogleAuthReturn(r)
    \/ OpenUpstream(r)
    \/ UpstreamAnswer(r)
    \/ ReadErrorBody(r)
    \/ RelayLine(r)
    \/ SelectAfterCommit(r)
    \/ YieldDone(r)
    \/ UpstreamClose(r)
    \/ UpstreamFail(r)
    \/ Cancel(r)

Next ==
    \/ \E r \in Req :
          \/ Verify(r)
          \/ google_auth(r)
          \/ UserinfoAnswer(r)
          \/ TokeninfoAnswer(r)
          \/ GetOrCreateSelect(r)
          \/ GetOrCreateCommit(r)
          \/ get_or_create_user(r)
          \/ GoogleAuthReturn(r)
          \/ OpenUpstream(r)
          \/ UpstreamAnswer(r)
          \/ ReadErrorBody(r)
          \/ RelayLine(r)
          \/ SelectAfterCommit(r)
          \/ YieldDone(r)
          \/ UpstreamClose(r)
          \/ UpstreamFail(r)
          \/ Cancel(r)
    \/ CollectGarbage

\* MaxReq concurrent requests of one user
Spec == Init /\ [][Next]_vars

\* one request, every kind of upstream line
SpecRelay == InitRelay /\ [][Next]_vars

\* MaxReq requests of one account with two profiles
SpecProfile == InitProfile /\ [][Next]_vars

\* verify_access_token calls the synchronous requests.get inside the async
\* endpoint: while a request waits for the identity provider the event
\* loop of the worker runs no other request
EventLoopBlocked == \E r \in Req : req[r].pc \in {"verifying", "tokeninfo"}

\* a step of r the event loop is free to run
FairStep(r) == ~EventLoopBlocked /\ Step(r)

\* Concurrent requests with the scheduling the code ensures: while the
\* event loop is not blocked, a request that can take one of the steps of
\* Step takes one
SpecLive == InitLive /\ [][Next]_vars /\ \A r \in Req : WF_vars(FairStep(r))

(* ------------------------- helpers of the claims ---------------------- *)
Last(s) == s[Len(s)]
Front(s) == SubSeq(s, 1, Len(s) - 1)

\* a stream that reached the upstream sentinel and left the loop through it
EndedBySentinel(r) == req[r].end = "sentinel"

\* an upstream data line whose payload parses and whose handling does not raise
Forwardable(l) == l.kind = "json" /\ ~TrackRaises(l.val)

\* the number of frames of a kind in a sequence
CountKind(s, kind) == Len(SelectSeq(s, LAMBDA f : f.kind = kind))

\* the total a usage-bearing line reports (total_tokens, else prompt +
\* completion); only asked of Forwardable lines with a usage object
ReportedTotal(l) ==
    IF l.val.usage.total_tokens.t = "missing"
    THEN UsageGet(l.val.usage, "prompt_tokens").n
         + UsageGet(l.val.usage, "completion_tokens").n
    ELSE l.val.usage.total_tokens.n

HasNumericTotal(l) ==
    /\ Forwardable(l)
    /\ l.val.usage.tag = "obj"
    /\ l.val.usage.total_tokens.t # "null"

\* the usage-bearing lines of an upstream history
UsageLines(up) == SelectSeq(up, HasNumericTotal)

\* what a stream's end would bill for the total it holds
Observed(r) ==
    IF req[r].total_tokens.t = "num" /\ req[r].total_tokens.n > 0
    THEN req[r].total_tokens.n ELSE 0

(* ------------------------------- C1 ----------------------------------- *)
\* C1 as stated: when a stream ends with the sentinel, the caller has the
\* upstream frames (those whose payload parses) verbatim, the same bytes in
\* arrival order, then one accounting frame, then [DONE].
C1_VerbatimRelay ==
    \A r \in Req :
       EndedBySentinel(r) =>
          LET o == req[r].out n == Len(req[r].out) IN
          /\ n >= 2
          /\ o[n] = DoneFrame
          /\ o[n - 1].kind = "token_update"
          /\ SubSeq(o, 1, n - 2) =
                SelectSeq(Front(req[r].up), LAMBDA l : l.kind = "json")

(* ------------------------------- C2 ----------------------------------- *)
\* C2 as stated: the stored tokens_left of an account is never negative.
C2_TokensLeftNeverNegative ==
    \A e \in Emails : db[e].exists => db[e].tokens_left >= 0

(* ------------------------------- C3 ----------------------------------- *)
\* C3: a stream applies the ledger update at most once, however many
\* usage-bearing frames it read.
C3_ReconcileAtMostOnce ==
    \A r \in Req :
       /\ req[r].reconciled <= 1
       /\ req[r].billed \in {0, Observed(r)}

\* C3 witness: a stream that read two usage-bearing frames and then the
\* sentinel, and updated the ledger once.
C3_Witness ==
    \E r \in Req :
       /\ EndedBySentinel(r)
       /\ Len(UsageLines(req[r].up)) >= 2
       /\ req[r].reconciled = 1

(* ------------------------------- C4 ----------------------------------- *)
\* C4 as stated: when the relay ends without the sentinel (read timeout,
\* transport error, upstream close) after usage was observed, the caller has
\* exactly one error frame and the ledger was updated once with the last
\* observed total.
C4_FailureStillBills ==
    \A r \in Req :
       (req[r].end \in {"timeout", "transport", "eof"} /\ Observed(r) > 0) =>
          /\ CountKind(req[r].out, "error") = 1
          /\ req[r].reconciled = 1
          /\ req[r].billed = Observed(r)

(* ------------------------------- C5 ----------------------------------- *)
\* C5 as stated: when the caller disconnects before the sentinel, the ledger
\* is updated with the last observed total (and left alone when no usage was
\* observed).
C5_CancelStillBills ==
    \A r \in Req :
       req[r].end = "cancel" =>
          /\ req[r].billed = Observed(r)
          /\ Observed(r) > 0 => req[r].reconciled = 1

(* ------------------------------- C6 ----------------------------------- *)
\* what the streams of a user have billed, together
BilledTo(e) ==
    SumOver([r \in Req |-> IF req[r].user.email = e THEN req[r].billed ELSE 0], Req)

\* C6: under every interleaving, an account's tokens_used is the sum of what
\* each of its streams billed (and tokens_left the allotment less that sum),
\* and a stream that ended with the sentinel billed the total it observed:
\* no reconciliation overwrites another's.
C6_NoLostDeduction ==
    /\ \A e \in Emails :
          db[e].exists =>
             /\ db[e].tokens_used = BilledTo(e)
             /\ db[e].tokens_left = DefaultTokens - BilledTo(e)
    /\ \A r \in Req : EndedBySentinel(r) => req[r].billed = Observed(r)

\* C6 witness: two streams of one user that both passed the quota check on
\* the untouched balance, observed totals A and B and ended with the
\* sentinel; tokens_used is A + B.
C6_Witness ==
    \E r1, r2 \in Req :
       /\ r1 # r2
       /\ EndedBySentinel(r1) /\ EndedBySentinel(r2)
       /\ req[r1].user.email = req[r2].user.email
       /\ req[r1].user.tokens_left = DefaultTokens
       /\ req[r2].user.tokens_left = DefaultTokens
       /\ req[r1].billed = 50
       /\ req[r2].billed = DefaultTokens
       /\ db[req[r1].user.email].tokens_used = DefaultTokens + 50

(* ------------------------------- C7 ----------------------------------- *)
\* C7: a chat request whose get-or-create returned tokens_left <= 0 is
\* answered 403, opens no upstream connection, yields no frame and bills
\* nothing.
C7_ExhaustedQuotaFailsFast ==
    \A r \in Req :
       (req[r].endpoint = "chat" /\ req[r].user.ok
          /\ req[r].user.tokens_left <= 0) =>
          /\ req[r].pc = "failed"
          /\ req[r].status = 403
          /\ req[r].upstream_calls = 0
          /\ req[r].out = <<>>
          /\ req[r].reconciled = 0
          /\ req[r].billed = 0

\* C7 witness: a request answered 403 on a balance of exactly zero.
C7_Witness ==
    \E r \in Req :
       /\ req[r].endpoint = "chat"
       /\ req[r].status = 403
       /\ req[r].user.ok
       /\ req[r].user.tokens_left = 0

(* ------------------------------- C8 ----------------------------------- *)
\* the step of r reads one more upstream line, and it is unparseable
ReadsMalformed(r) ==
    /\ req[r].pc = "relaying"
    /\ Len(req'[r].up) = Len(req[r].up) + 1
    /\ Last(req'[r].up).kind = "malformed"

\* C8: reading an unparseable frame keeps the stream relaying, yields
\* nothing and leaves the tracked usage alone; and a stream ended by the
\* sentinel has given the caller its parsed frames in order, then the
\* accounting frame and [DONE].
C8_MalformedDropped ==
    [][\A r \in Req :
         /\ ReadsMalformed(r) =>
               /\ req'[r].pc = "relaying"
               /\ req'[r].out = req[r].out
               /\ req'[r].total_tokens = req[r].total_tokens
               /\ req'[r].prompt_tokens = req[r].prompt_tokens
               /\ req'[r].completion_tokens = req[r].completion_tokens
               /\ db' = db
         /\ req'[r].end = "sentinel" =>
               /\ Len(req'[r].out) = CountKind(req'[r].up, "json") + 2
               /\ \A i \in 1..CountKind(req'[r].up, "json") :
                     req'[r].out[i].val =
                        SelectSeq(req'[r].up, LAMBDA l : l.kind = "json")[i].val
       ]_vars

\* C8 witness: a stream ended by the sentinel whose upstream had an
\* unparseable frame between two parsed ones; the caller has four frames.
C8_Witness ==
    \E r \in Req :
       /\ EndedBySentinel(r)
       /\ Len(req[r].up) = 4
       /\ req[r].up[1].kind = "json"
       /\ req[r].up[2].kind = "malformed"
       /\ req[r].up[3].kind = "json"
       /\ Len(req[r].out) = 4

(* ------------------------------- C9 ----------------------------------- *)
\* the last non-zero total among the usage-bearing lines, 0 when there is none
RECURSIVE LastNonZeroTotal(_)
LastNonZeroTotal(up) ==
    IF up = <<>> THEN 0
    ELSE IF HasNumericTotal(Last(up)) /\ ReportedTotal(Last(up)) # 0
         THEN ReportedTotal(Last(up))
         ELSE LastNonZeroTotal(Front(up))

\* C9 as stated: a stream ended by the sentinel bills the latest non-zero
\* total its usage frames reported (not their sum, not a later zero).
C9_LatestNonZeroTotalBilled ==
    \A r \in Req :
       EndedBySentinel(r) => req[r].billed = LastNonZeroTotal(req[r].up)

(* ------------------------------- C10 ---------------------------------- *)
\* C10 as stated: the accounting frame a step emits carries the tokens_left
\* the ledger stores for the account after that step.
C10_AccountingFrameIsCurrent ==
    [][\A r \in Req :
         (req[r].pc # "accounted" /\ req'[r].pc = "accounted") =>
            Last(req'[r].out).tokens_left = db'[req[r].user.email].tokens_left
      ]_vars

(* ------------------------------- C11 ---------------------------------- *)
\* the step of r ends the wait for the body of an answer with another
\* status than 200, and the caller is still there
RefusedUpstream(r) ==
    /\ req[r].pc = "refused"
    /\ req'[r].pc # "refused"
    /\ req'[r].end # "cancel"

\* C11: when the upstream answers the initial request with a non-success
\* status, the caller gets exactly one error frame (the one carrying the
\* upstream's body when the body could be read) and the stream is closed;
\* nothing is reconciled and the users table is unchanged.
C11_PreStreamErrorLeavesLedger ==
    [][\A r \in Req :
         RefusedUpstream(r) =>
            /\ req'[r].pc = "closed"
            /\ Len(req'[r].out) = 1
            /\ req'[r].out[1].kind = "error"
            /\ req'[r].end = "status" =>
                  req'[r].out = <<ErrorFrame("OpenRouter API error")>>
            /\ req'[r].up = <<>>
            /\ req'[r].reconciled = 0
            /\ req'[r].billed = 0
            /\ db' = db
      ]_vars

\* C11 witness: the second request of an account with tokens_left = 999950
\* was refused by the upstream; the account still has 50 used, 999950 left.
C11_Witness ==
    \E r \in Req :
       /\ req[r].end = "status"
       /\ req[r].user.tokens_left = DefaultTokens - 50
       /\ db[req[r].user.email].tokens_used = 50
       /\ db[req[r].user.email].tokens_left = DefaultTokens - 50

(* ------------------------------- C12 ---------------------------------- *)
\* C12: every account has tokens_left = total_tokens - tokens_used.
C12_LeftIsTotalLessUsed ==
    \A e \in Emails :
       db[e].exists => db[e].tokens_left = db[e].total_tokens - db[e].tokens_used

\* C12 witness: an overdrawn account, after two reconciliations.
C12_Witness ==
    \E e \in Emails :
       /\ db[e].exists
       /\ db[e].tokens_used = DefaultTokens + 50
       /\ db[e].tokens_left = 0 - 50

(* ------------------------------- C13 ---------------------------------- *)
\* the step of r is the UPDATE or INSERT of get_or_create_user
WritesUser(r) == req[r].pc = "selected" /\ req'[r].pc # "selected"

\* the three token counters of a row
Counters(row) == <<row.total_tokens, row.tokens_used, row.tokens_left>>

\* the step of r is the re-SELECT of get_or_create_user and its return
ReturnsUser(r) == req[r].pc = "written" /\ req'[r].pc # "written"

\* the profile the identity provider gave has an email and a name
WellFormed(info) == info.email \in Emails /\ info.name # ""

\* C13 as stated: the call for an unseen identity creates the account with
\* 1000000 / 0 / 1000000; a call that found the account never changes its
\* counters, with identical profile data it succeeds and leaves the whole
\* row as it was; the counters a call returns are those stored.
C13_GetOrCreateIdempotent ==
    [][\A r \in Req :
         /\ WritesUser(r) =>
               LET e == req[r].info.email IN
               /\ (~RowExists(db, e) /\ WellFormed(req[r].info)) =>
                     /\ req'[r].pc # "failed"
                     /\ db'[e].exists
                     /\ Counters(db'[e]) = <<DefaultTokens, 0, DefaultTokens>>
               /\ req[r].found =>
                     /\ Counters(db'[e]) = Counters(db[e])
                     /\ (db[e].name = req[r].info.name
                           /\ db[e].picture = req[r].info.picture) =>
                          (db' = db /\ req'[r].pc # "failed")
         /\ ReturnsUser(r) =>
               /\ Counters(req'[r].user) = Counters(db[req[r].info.email])
               /\ db' = db
      ]_vars

(* ------------------------------- C14 ---------------------------------- *)
\* the identity provider's payload had no email
LacksEmail(r) == req[r].info.ok /\ req[r].info.email \notin Emails

\* C14 as stated: a request whose identity payload lacks the email ends as
\* Unauthorized: the step that fails it answers 401 and leaves the users
\* table alone.
C14_VerificationFailureIs401 ==
    [][\A r \in Req :
         (LacksEmail(r) /\ req'[r].pc = "failed") =>
            (req'[r].status = 401 /\ db' = db)
      ]_vars

(* ------------------------------- C15 ---------------------------------- *)
\* C15: when a storage operation of the reconciliation raises, the caller
\* gets one error frame as the last frame (no accounting frame, no [DONE]),
\* the stream is closed and the update is not tried again.
C15_StorageFailureCloses ==
    \A r \in Req :
       req[r].end = "storage" =>
          /\ req[r].pc = "closed"
          /\ CountKind(req[r].out, "error") = 1
          /\ Last(req[r].out).kind = "error"
          /\ CountKind(req[r].out, "token_update") = 0
          /\ CountKind(req[r].out, "done") = 0
          /\ req[r].reconciled <= 1

\* C15 witness: a stream that had observed usage when the storage raised,
\* before the commit (nothing billed).
C15_Witness ==
    \E r \in Req :
       /\ req[r].end = "storage"
       /\ Observed(r) = 50
       /\ req[r].billed = 0
       /\ Len(req[r].out) = 2

(* ------------------------------- C16 ---------------------------------- *)
\* the request was answered and its connection is closed ("returned": the
\* auth endpoint has answered 200)
Terminal(r) == req[r].pc \in {"closed", "failed", "returned"}

\* C16 as stated: every request eventually reaches Closed or Failed and
\* stays there, when every step the code makes sure of is eventually taken.
C16_EveryRequestTerminates == \A r \in Req : <>[]Terminal(r)

(* ------------------------------- C17 ---------------------------------- *)
\* the step of r is the reconciliation of its stream
Reconciles(r) ==
    /\ req[r].pc = "relaying"
    /\ req'[r].reconciled = req[r].reconciled + 1

\* C17: across every step, an existing account stays, its total_tokens is
\* unchanged and its tokens_used does not decrease; tokens_used or
\* tokens_left change only in the reconciliation of a stream, and the
\* profile fields or the existence of the row only in get-or-create.
C17_LedgerFrame ==
    [][\A e \in Emails :
         /\ db[e].exists =>
               /\ db'[e].exists
               /\ db'[e].total_tokens = db[e].total_tokens
               /\ db'[e].tokens_used >= db[e].tokens_used
               /\ (<<db'[e].tokens_used, db'[e].tokens_left>>
                      # <<db[e].tokens_used, db[e].tokens_left>>) =>
                     \E r \in Req : Reconciles(r) /\ req[r].user.email = e
         /\ (<<db'[e].exists, db'[e].name, db'[e].picture>>
                # <<db[e].exists, db[e].name, db[e].picture>>) =>
               \E r \in Req : WritesUser(r) /\ req[r].info.email = e
      ]_vars

\* C17 witness: an account whose profile was rewritten by a later call and
\* whose counters were moved by a reconciliation.
C17_Witness ==
    \E e \in Emails :
       /\ db[e].exists
       /\ db[e].name = "Ann B"
       /\ db[e].tokens_used = 50
       /\ db[e].total_tokens = DefaultTokens
       /\ \E r \in Req : req[r].user.ok /\ req[r].user.name = "Ann"

(* ------------------------------- C18 ---------------------------------- *)
\* verify_access_token has returned for request r
Verified(r) == req[r].pc \notin {"idle", "absent", "verifying", "tokeninfo"}

\* C18 as stated: each call of the verifier makes exactly one outbound call.
C18_OneOutboundCall ==
    \A r \in Req : Verified(r) => Len(req[r].idp_calls) = 1

(* ------------------------------- C19 ---------------------------------- *)
\* the step of r reads one upstream line of this kind
Reads(r, kind) ==
    /\ req[r].pc = "relaying"
    /\ Len(req'[r].up) = Len(req[r].up) + 1
    /\ Last(req'[r].up).kind = kind

\* C19 as stated: a parseable frame is forwarded and the relay goes on with
\* the next line; the upstream sentinel is answered by the accounting frame,
\* which [DONE] follows (unless the storage fails).
C19_ParseableNeverAborts ==
    [][\A r \in Req :
         /\ Reads(r, "json") =>
               /\ req'[r].pc = "relaying"
               /\ req'[r].out =
                     Append(req[r].out, JsonDumpsFrame(Last(req'[r].up).val))
         /\ Reads(r, "done") =>
               \/ req'[r].end = "storage"
               \/ req'[r].pc = "committed"
               \/ /\ req'[r].pc = "accounted"
                  /\ Last(req'[r].out).kind = "token_update"
      ]_vars

(* ------------------------------- C20 ---------------------------------- *)
\* the caller has been sent [DONE] or an error frame
SentTerminal(r) ==
    /\ req[r].out # <<>>
    /\ Last(req[r].out).kind \in {"done", "error"}

\* C20: after [DONE] or an error frame nothing of the stream changes: no
\* line is read, no frame emitted, no usage counted, nothing reconciled;
\* and a terminal frame is only ever the last frame the caller has.
C20_NothingAfterTerminal ==
    [][\A r \in Req :
         /\ SentTerminal(r) => req'[r] = req[r]
         /\ \A i \in 1..(Len(req'[r].out) - 1) :
               req'[r].out[i].kind \notin {"done", "error"}
      ]_vars

\* C20 witness: a stream that ended by the sentinel while the upstream
\* could still send lines.
C20_Witness ==
    \E r \in Req :
       /\ req[r].end = "sentinel"
       /\ Len(req[r].up) = 2
       /\ Len(req[r].up) < MaxLines
       /\ Len(req[r].out) = 3
       /\ Last(req[r].out).kind = "done"

(* ------------------------------- C21 ---------------------------------- *)
\* the step of r is the INSERT of a call whose SELECT had found no row
Inserts(r) == WritesUser(r) /\ ~req[r].found

\* C21: among concurrent first requests of one unseen identity, an INSERT
\* either creates the account with 1000000 / 0 / 1000000 or fails its
\* request and leaves the users table as it was; every INSERT that comes
\* after the one that created the account fails the request (a chat request
\* with 500, reporting the UNIQUE constraint unless the database was
\* locked) and leaves the users table, the counters of the account
\* included, as it was.
C21_InsertRaceGrantsOnce ==
    [][\A r \in Req :
         Inserts(r) =>
            LET e == req[r].info.email IN
            IF RowExists(db, e)
            THEN /\ req'[r].pc = "failed"
                 /\ req[r].endpoint = "chat" => req'[r].status = 500
                 /\ req'[r].detail \in
                       {"UNIQUE constraint failed", "database is locked"}
                 /\ ~req'[r].user.ok
                 /\ db' = db
            ELSE \/ /\ req'[r].pc = "failed"
                    /\ req[r].endpoint = "chat" => req'[r].status = 500
                    /\ db' = db
                 \/ /\ req'[r].pc = "written"
                    /\ WellFormed(req[r].info)
                    /\ db'[e].exists
                    /\ Counters(db'[e]) = <<DefaultTokens, 0, DefaultTokens>>
      ]_vars

\* C21 witness: a request lost the race to one whose stream has since been
\* billed 50: its INSERT hit the UNIQUE constraint, it was answered 500 and
\* the account still has 50 used.
C21_Witness ==
    \E r1, r2 \in Req :
       /\ r1 # r2
       /\ req[r1].end = "sentinel" /\ req[r1].billed = 50
       /\ req[r2].endpoint = "chat"
       /\ req[r2].pc = "failed" /\ req[r2].status = 500
       /\ req[r2].detail = "UNIQUE constraint failed"
       /\ req[r2].info.ok /\ ~req[r2].found /\ ~req[r2].user.ok
       /\ db[req[r2].info.email].exists
       /\ db[req[r2].info.email].tokens_used = 50
       /\ db[req[r2].info.email].tokens_left = DefaultTokens - 50

====
